---- MODULE Spec2Model ----
(***************************************************************************)
(* Model of the regional school projection pipeline of                     *)
(* src/regional_school_projections.py: process_school_data, merge_data,    *)
(* then calculate_ratio_projections, then calculate_decline_statistics, as *)
(* main() runs them.                                                       *)
(*                                                                         *)
(* Two specifications share the steps after process_school_data.  Spec     *)
(* starts main() at merge_data, from any school table and population table *)
(* of the bounded shapes below, so that every case of the float arithmetic *)
(* occurs.  SpecRaw starts main() at process_school_data, from a raw       *)
(* elementari.csv table of a few rows.                                     *)
(*                                                                         *)
(* Tables are sequences of records (a pandas DataFrame's rows in order).   *)
(* A numeric cell is a float: a quotient n/d of integers in lowest terms   *)
(* with d > 0, or one of the three IEEE specials, written d = 0:           *)
(* NaN = 0/0, +inf = 1/0, -inf = -1/0.  pandas reads NaN as "missing"      *)
(* (isna/notna); +inf and -inf are NOT missing.  Rounding error of binary  *)
(* floating point and the sign of zero are not modelled: quotients are     *)
(* exact.                                                                  *)
(*                                                                         *)
(* out keeps the printed lines that name a region ("Processing: r", the    *)
(* no-historical-data warning, the "Ratio - Min, Median, Max" line with    *)
(* the numbers it formats, the top-10 listing); banners and row counts are *)
(* left out.  The ref_area column of the school table, which no later step *)
(* reads, is kept only in the rows process_school_data builds (SpecRaw).   *)
(***************************************************************************)
EXTENDS Integers, Sequences, FiniteSets

(***************************************************************************)
(* Bounds of the model.                                                    *)
(***************************************************************************)
\* largest observed school count of an input row (scuole ranges over 0..MaxScuole)
MaxScuole == 2
\* largest child population of an input row (children_6_10 ranges over 0..MaxChildren)
MaxChildren == 2

(***************************************************************************)
(* Program constants.                                                      *)
(***************************************************************************)
\* region_df['year'] > 1990
HistoryCutoff == 1990
\* merged['year'] < 2023 / >= 2023
FirstProjectedYear == 2023
\* region_df['year'] == 2022 / 2050 / 2080
BaselineYear == 2022
Horizon1 == 2050
Horizon2 == 2080

(***************************************************************************)
(* Floats.                                                                 *)
(***************************************************************************)
Abs(x) == IF x < 0 THEN -x ELSE x

Sign(x) == IF x < 0 THEN -1 ELSE IF x > 0 THEN 1 ELSE 0

RECURSIVE Gcd(_, _)
Gcd(a, b) == IF b = 0 THEN a ELSE Gcd(b, a % b)

\* the float n/d in canonical form (d = 0 gives NaN or a signed infinity)
Norm(n, d) ==
    IF d = 0 THEN [n |-> Sign(n), d |-> 0]
    ELSE LET g == Gcd(Abs(n), Abs(d))
             s == IF d < 0 THEN -1 ELSE 1
         IN  [n |-> (s * n) \div g, d |-> (s * d) \div g]

Num(i) == [n |-> i, d |-> 1]

NaN == [n |-> 0, d |-> 0]

PosInf == [n |-> 1, d |-> 0]

NegInf == [n |-> -1, d |-> 0]

\* pandas isna / notna
isna(x) == x = NaN

notna(x) == x # NaN

IsFinite(x) == x.d # 0

\* float division x / y (IEEE: x/0 is a signed infinity, 0/0 and inf/inf are NaN)
Div(x, y) == Norm(x.n * y.d, x.d * y.n)

\* float multiplication
Mul(x, y) == Norm(x.n * y.n, x.d * y.d)

\* float addition (inf + inf = inf, inf + -inf = NaN)
Add(x, y) ==
    IF isna(x) \/ isna(y) THEN NaN
    ELSE IF x.d = 0 /\ y.d = 0 THEN (IF x.n = y.n THEN x ELSE NaN)
    ELSE IF x.d = 0 THEN x
    ELSE IF y.d = 0 THEN y
    ELSE Norm(x.n * y.d + y.n * x.d, x.d * y.d)

\* float subtraction
Sub(x, y) == Add(x, [n |-> -y.n, d |-> y.d])

\* float comparison x <= y (False when either side is NaN)
Le(x, y) ==
    IF isna(x) \/ isna(y) THEN FALSE
    ELSE IF x.d = 0 /\ y.d = 0 THEN x.n <= y.n
    ELSE x.n * y.d <= y.n * x.d

\* float comparison x < y
Lt(x, y) == Le(x, y) /\ x # y

(***************************************************************************)
(* Sequences and sorting.                                                  *)
(***************************************************************************)
Range(s) == {s[i] : i \in DOMAIN s}

RECURSIVE Concat(_)
Concat(ss) == IF ss = <<>> THEN <<>> ELSE Head(ss) \o Concat(Tail(ss))

(***************************************************************************)
(* Input tables.                                                           *)
(*                                                                         *)
(* school_df is what process_school_data returns: one row per (region,     *)
(* year) with studenti (enrollment) and scuole (school count), each        *)
(* possibly missing but not both (a pivot row exists only for a value).    *)
(* pop_df is what load_population_projections returns: one row per         *)
(* (region, year) with children_6_10.  Both columns of school_df are taken *)
(* to exist, and the keys of each table to be unique.                      *)
(***************************************************************************)
\* the region names of the inputs, in the order sorted() gives them; the first
\* is a name of the population table that NUTS_TO_REGION does not have
RegionOrder == <<"Extra-Regio", "Lazio", "Umbria">>

RegionRank(r) == CHOOSE i \in DOMAIN RegionOrder : RegionOrder[i] = r

FirstRegion == "Lazio"

SecondRegion == "Umbria"

\* a region name of the population table that is no value of NUTS_TO_REGION
UnmappedRegion == "Extra-Regio"

SchoolYears == {1990, 2022}

PopYears == {2022, 2050, 2080}

StudentiVals == {NaN, Num(0), Num(2)}

ScuoleVals == {NaN} \cup {Num(i) : i \in 0..MaxScuole}

ChildrenVals == {Num(i) : i \in 0..MaxChildren}

SchoolCells ==
    {c \in [studenti : StudentiVals, scuole : ScuoleVals] :
        notna(c.studenti) \/ notna(c.scuole)}

\* the school rows of the first region: a cell for each year of a subset of SchoolYears
FirstSchoolInputs == UNION {[Y -> SchoolCells] : Y \in SUBSET SchoolYears}

\* the population rows of the first region: none, or one for every year of PopYears
\* (at the baseline year the population is 0 or MaxChildren)
FirstPopInputs ==
    {g \in UNION {[Y -> ChildrenVals] : Y \in {{}, PopYears}} :
        \A y \in DOMAIN g : y = BaselineYear => g[y] \in {Num(0), Num(MaxChildren)}}

NoRows == [y \in {} |-> NaN]

\* the second region's rows: absent; population only; a baseline with its
\* projections; school counts without enrollment; school rows after the baseline
\* year, one with enrollment only and one with a school count only; three school
\* rows with three different ratios
SecondProfiles ==
    { [school |-> NoRows, pop |-> NoRows],
      [school |-> NoRows, pop |-> [y \in PopYears |-> Num(1)]],
      [school |-> [y \in {BaselineYear} |-> [studenti |-> Num(2), scuole |-> Num(1)]],
       pop    |-> [y \in PopYears |-> IF y = Horizon1 THEN Num(1) ELSE Num(0)]],
      [school |-> [y \in {BaselineYear} |-> [studenti |-> NaN, scuole |-> Num(2)]],
       pop    |-> [y \in PopYears |-> Num(1)]],
      [school |-> [y \in {BaselineYear, Horizon1, Horizon2} |->
                     IF y = BaselineYear THEN [studenti |-> Num(2), scuole |-> Num(1)]
                     ELSE IF y = Horizon1 THEN [studenti |-> Num(2), scuole |-> NaN]
                     ELSE [studenti |-> NaN, scuole |-> Num(1)]],
       pop    |-> [y \in PopYears |-> Num(1)]],
      [school |-> [y \in {BaselineYear, Horizon1, Horizon2} |->
                     IF y = BaselineYear THEN [studenti |-> Num(2), scuole |-> Num(1)]
                     ELSE IF y = Horizon1 THEN [studenti |-> Num(2), scuole |-> Num(2)]
                     ELSE [studenti |-> Num(0), scuole |-> Num(1)]],
       pop    |-> NoRows] }

\* the years of a finite set in increasing order
RECURSIVE YearsAsc(_)
YearsAsc(Y) ==
    IF Y = {} THEN <<>>
    ELSE LET m == CHOOSE y \in Y : \A z \in Y : y <= z
         IN  <<m>> \o YearsAsc(Y \ {m})

SchoolRows(region, f) ==
    LET ys == YearsAsc(DOMAIN f)
    IN  [i \in DOMAIN ys |->
            [region |-> region, year |-> ys[i],
             studenti |-> f[ys[i]].studenti, scuole |-> f[ys[i]].scuole]]

PopRows(region, g) ==
    LET ys == YearsAsc(DOMAIN g)
    IN  [i \in DOMAIN ys |->
            [region |-> region, year |-> ys[i], children_6_10 |-> g[ys[i]]]]

VARIABLES
    raw_df,      \* the rows of elementari.csv (empty under Spec, which does not read them)
    school_df,   \* the table process_school_data returned
    school_cols, \* which of the columns 'studenti' and 'scuole' school_df has
    pop_df,      \* the table load_population_projections returned
    merged_df,   \* merge_data's result
    final_df,    \* calculate_ratio_projections' result
    stats_df,    \* calculate_decline_statistics' result
    out,         \* the lines the core functions printed that name a region
    pc,          \* main()'s position, or "raised" once an exception left it
    download,    \* the run of src/download_schools_by_region.py: its position and locals
    istat,       \* the call of process_istat_school_file: its position and locals
    maps         \* the call of load_and_prepare_data of src/create_regional_maps.py

\* the variables of the projection pipeline
pipeline == <<raw_df, school_df, school_cols, pop_df, merged_df, final_df, stats_df, out, pc>>

\* the variables of the other scripts
other_scripts == <<download, istat, maps>>

vars == <<pipeline, other_scripts>>

\* a script that a specification does not run
NotRun == [pc |-> "not_run"]

Init ==
    /\ \E f \in FirstSchoolInputs, g \in FirstPopInputs, p \in SecondProfiles :
          /\ school_df = SchoolRows(FirstRegion, f) \o SchoolRows(SecondRegion, p.school)
          /\ pop_df = PopRows(FirstRegion, g) \o PopRows(SecondRegion, p.pop)
    /\ raw_df = <<>>
    /\ school_cols = {"studenti", "scuole"}
    /\ merged_df = <<>>
    /\ final_df = <<>>
    /\ stats_df = <<>>
    /\ out = <<>>
    /\ pc = "merge_data"
    /\ download = NotRun /\ istat = NotRun /\ maps = NotRun

(***************************************************************************)
(* process_school_data                                                     *)
(*                                                                         *)
(* A raw row is a row of elementari.csv with the columns the function      *)
(* reads.  obsTime is an integer year and obsValue a non-missing integer.  *)
(* The row order of the file does not matter to the pivot, so a raw table  *)
(* is taken in the order of RawUniverse; the same row may occur twice.     *)
(***************************************************************************)
\* most rows of a raw table
MaxRawRows == 4

RawRow(sex, citizenship, management, data_type, ref_area, obsTime, obsValue) ==
    [SEX |-> sex, CITIZENSHIP |-> citizenship, TYPE_SCHOOL_MANAGEMENT |-> management,
     DATA_TYPE |-> data_type, REF_AREA |-> ref_area, obsTime |-> obsTime,
     obsValue |-> obsValue]

\* the rows a raw table is drawn from: rows the filters keep, for two regions, and
\* rows that fail exactly one of the conditions (sex, citizenship, management,
\* data type, an area code without a region, the 3-character code of the
\* aggregate, the national code)
RawUniverse ==
    << RawRow("T", "TOTAL", "ALL", "SCHO", "ITI4", BaselineYear, 1),
       RawRow("T", "TOTAL", "ALL", "SCHO", "ITI4", BaselineYear, 2),
       RawRow("T", "TOTAL", "ALL", "ENR", "ITI4", BaselineYear, 2),
       RawRow("T", "TOTAL", "ALL", "ENR", "ITI4", Horizon1, 1),
       RawRow("T", "TOTAL", "ALL", "SCHO", "ITI2", BaselineYear, 1),
       RawRow("T", "TOTAL", "ALL", "ENR", "ITI2", BaselineYear, 2),
       RawRow("T", "TOTAL", "ALL", "SCHO", "ITI2", Horizon1, 2),
       RawRow("F", "TOTAL", "ALL", "SCHO", "ITI4", BaselineYear, 1),
       RawRow("T", "FRGN", "ALL", "ENR", "ITI4", BaselineYear, 1),
       RawRow("T", "TOTAL", "PUB", "SCHO", "ITI2", BaselineYear, 1),
       RawRow("T", "TOTAL", "ALL", "TEACH", "ITI4", BaselineYear, 1),
       RawRow("T", "TOTAL", "ALL", "SCHO", "ITZZ", BaselineYear, 1),
       RawRow("T", "TOTAL", "ALL", "ENR", "ITZZ", BaselineYear, 2),
       RawRow("T", "TOTAL", "ALL", "SCHO", "ITH", BaselineYear, 1),
       RawRow("T", "TOTAL", "ALL", "SCHO", "IT", BaselineYear, 1),
       RawRow("T", "TOTAL", "ALL", "ENR", "IT", BaselineYear, 2) >>

\* the raw tables: at most MaxRawRows rows of RawUniverse
RawTables ==
    LET picks == UNION {{s \in [1..n -> DOMAIN RawUniverse] :
                            \A i \in 1..(n - 1) : s[i] <= s[i + 1]} : n \in 0..MaxRawRows}
    IN  {[i \in DOMAIN s |-> RawUniverse[s[i]]] : s \in picks}

\* the population tables of SpecRaw: no rows, or the same three rows for the two
\* regions and for a third whose name NUTS_TO_REGION does not have
RawPopTables ==
    LET g == [y \in PopYears |-> IF y = Horizon1 THEN Num(1) ELSE Num(MaxChildren)]
    IN  {<<>>, PopRows(UnmappedRegion, g) \o PopRows(FirstRegion, g) \o PopRows(SecondRegion, g)}

\* the area codes of the raw rows, in the order of their strings
AreaOrder == <<"IT", "ITH", "ITI2", "ITI4", "ITZZ">>

AreaRank(a) == CHOOSE i \in DOMAIN AreaOrder : AreaOrder[i] = a

\* a table with one more code, that of no region of Italy
NUTS_TO_REGION_with_extra ==
    {<<"ITI2", "Umbria">>, <<"ITI4", "Lazio">>, <<"ITZZ", UnmappedRegion>>}

\* a table that gives two codes the same name
NUTS_TO_REGION_two_to_one ==
    {<<"ITI2", "Lazio">>, <<"ITI4", "Lazio">>}

\* the dict NUTS_TO_REGION: pairs of code and region name
NUTS_TO_REGION ==
    { <<"ITC1", "Piemonte">>, <<"ITC2", "Valle d Aosta-Vallee d Aoste">>,
      <<"ITC3", "Liguria">>, <<"ITC4", "Lombardia">>,
      <<"ITH1", "Provincia autonoma di Bolzano">>,
      <<"ITH2", "Provincia autonoma di Trento">>,
      <<"ITH3", "Veneto">>, <<"ITH4", "Friuli-Venezia Giulia">>,
      <<"ITH5", "Emilia-Romagna">>, <<"ITI1", "Toscana">>, <<"ITI2", "Umbria">>,
      <<"ITI3", "Marche">>, <<"ITI4", "Lazio">>, <<"ITF1", "Abruzzo">>,
      <<"ITF2", "Molise">>, <<"ITF3", "Campania">>, <<"ITF4", "Puglia">>,
      <<"ITF5", "Basilicata">>, <<"ITF6", "Calabria">>, <<"ITG1", "Sicilia">>,
      <<"ITG2", "Sardegna">>, <<"ITH", "Trentino-Alto Adige">> }

\* the value Series.map gives a code that is not a key (NaN in the region column)
MissingRegion == "NaN"

\* df_wide['ref_area'].map(NUTS_TO_REGION)
map_region(ref_area) ==
    IF \E p \in NUTS_TO_REGION : p[1] = ref_area
    THEN (CHOOSE p \in NUTS_TO_REGION : p[1] = ref_area)[2]
    ELSE MissingRegion

\* the four conditions of the row filter
passes_filter(row) ==
    /\ row.SEX = "T"
    /\ row.CITIZENSHIP = "TOTAL"
    /\ row.TYPE_SCHOOL_MANAGEMENT = "ALL"
    /\ row.DATA_TYPE \in {"SCHO", "ENR"}

\* the first value of the group in place of the sum
agg_first(values) == values[1]

\* aggfunc='sum' over the values of a non-empty group
RECURSIVE agg_sum(_)
agg_sum(values) ==
    IF values = <<>> THEN 0 ELSE Head(values) + agg_sum(Tail(values))

\* one cell of the pivot: the aggregate of the group of rows of that area, year
\* and data type, missing when the group has no row
pivot_cell(filtered, ref_area, year, data_type) ==
    LET group == SelectSeq(filtered,
                     LAMBDA row : /\ row.REF_AREA = ref_area
                                  /\ row.obsTime = year
                                  /\ row.DATA_TYPE = data_type)
    IN  IF group = <<>> THEN NaN
        ELSE Num(agg_sum([i \in DOMAIN group |-> group[i].obsValue]))

\* the rows of the pivot in the order of its index: by ref_area, then year
RECURSIVE sort_wide(_)
sort_wide(rows) ==
    IF rows = {} THEN <<>>
    ELSE LET m == CHOOSE r \in rows : \A q \in rows \ {r} :
                      \/ AreaRank(r.ref_area) < AreaRank(q.ref_area)
                      \/ r.ref_area = q.ref_area /\ r.year < q.year
         IN  <<m>> \o sort_wide(rows \ {m})

\* the whole function: the table it returns and which of the two value columns
\* the pivot gave it (one for each data type that passes the row filter)
process_school_data(df) ==
    LET filtered == SelectSeq(df, passes_filter)
        index == {<<filtered[i].REF_AREA, filtered[i].obsTime>> : i \in DOMAIN filtered}
        columns == {filtered[i].DATA_TYPE : i \in DOMAIN filtered}
        WideRow(k) ==
            [ref_area |-> k[1], year |-> k[2],
             studenti |-> pivot_cell(filtered, k[1], k[2], "ENR"),
             scuole |-> pivot_cell(filtered, k[1], k[2], "SCHO"),
             region |-> map_region(k[1])]
        df_wide == sort_wide({WideRow(k) : k \in index})
    IN  [df |-> SelectSeq(df_wide,
                   LAMBDA row : Len(row.ref_area) = 4 /\ row.region # MissingRegion),
         cols |-> {"studenti" : t \in columns \cap {"ENR"}} \cup
                  {"scuole" : t \in columns \cap {"SCHO"}}]

InitRaw ==
    /\ raw_df \in RawTables
    /\ pop_df \in RawPopTables
    /\ school_df = <<>>
    /\ school_cols = {}
    /\ merged_df = <<>>
    /\ final_df = <<>>
    /\ stats_df = <<>>
    /\ out = <<>>
    /\ pc = "process_school_data"
    /\ download = NotRun /\ istat = NotRun /\ maps = NotRun

ProcessSchoolData ==
    /\ pc = "process_school_data"
    /\ LET r == process_school_data(raw_df)
       IN  /\ school_df' = r.df
           /\ school_cols' = r.cols
    /\ pc' = "merge_data"
    /\ UNCHANGED <<raw_df, pop_df, merged_df, final_df, stats_df, out>>
    /\ UNCHANGED other_scripts

(***************************************************************************)
(* merge_data                                                              *)
(***************************************************************************)
Key(row) == <<row.region, row.year>>

\* the order pd.merge(how='outer') and sort_values give rows: by region name, then year
KeyLess(a, b) ==
    \/ RegionRank(a.region) < RegionRank(b.region)
    \/ a.region = b.region /\ a.year < b.year

\* the rows of a set with unique keys, in key order
RECURSIVE SortByKey(_)
SortByKey(rows) ==
    IF rows = {} THEN <<>>
    ELSE LET m == CHOOSE r \in rows : \A q \in rows \ {r} : KeyLess(r, q)
         IN  <<m>> \o SortByKey(rows \ {m})

\* the proj column without the last assignment (scuole missing and year >= 2023)
proj_tag_no_year_rule(indicator, scuole, year) ==
    LET p0 == ""
        p1 == IF indicator = "right_only" THEN "BSL" ELSE p0
        p2 == IF indicator = "both" THEN "" ELSE p1
    IN  IF notna(scuole) /\ year < FirstProjectedYear THEN "" ELSE p2

\* the proj column given by the year alone
proj_tag_by_year(indicator, scuole, year) ==
    IF year >= FirstProjectedYear THEN "BSL" ELSE ""

\* the proj column of one merged row: the four assignments of merge_data in order
proj_tag(indicator, scuole, year) ==
    LET p0 == ""
        p1 == IF indicator = "right_only" THEN "BSL" ELSE p0
        p2 == IF indicator = "both" THEN "" ELSE p1
        p3 == IF notna(scuole) /\ year < FirstProjectedYear THEN "" ELSE p2
    IN  IF isna(scuole) /\ year >= FirstProjectedYear THEN "BSL" ELSE p3

\* the keys of an inner join: those of both tables
join_keys_inner(school, pop) ==
    {Key(school[i]) : i \in DOMAIN school} \cap {Key(pop[i]) : i \in DOMAIN pop}

\* how='outer': the keys of either table
join_keys(school, pop) ==
    {Key(school[i]) : i \in DOMAIN school} \cup {Key(pop[i]) : i \in DOMAIN pop}

\* pd.merge(school_df, pop_df, on=['region', 'year'], how='outer', indicator=True),
\* then the proj column
merge_data(school, pop) ==
    LET keys == join_keys(school, pop)
        Row(k) ==
            LET inL == \E i \in DOMAIN school : Key(school[i]) = k
                inR == \E i \in DOMAIN pop : Key(pop[i]) = k
                l == school[CHOOSE i \in DOMAIN school : Key(school[i]) = k]
                r == pop[CHOOSE i \in DOMAIN pop : Key(pop[i]) = k]
                indicator == IF inL /\ inR THEN "both"
                             ELSE IF inL THEN "left_only" ELSE "right_only"
                scuole == IF inL THEN l.scuole ELSE NaN
            IN  [region |-> k[1], year |-> k[2],
                 studenti |-> IF inL THEN l.studenti ELSE NaN,
                 scuole |-> scuole,
                 children_6_10 |-> IF inR THEN r.children_6_10 ELSE NaN,
                 indicator |-> indicator,
                 proj |-> proj_tag(indicator, scuole, k[2])]
    IN  SortByKey({Row(k) : k \in keys})

\* merged['scuole'] raises KeyError when the school table has no such column
MergeData ==
    /\ pc = "merge_data"
    /\ IF "scuole" \in school_cols
       THEN /\ merged_df' = merge_data(school_df, pop_df)
            /\ pc' = "calculate_ratio_projections"
       ELSE /\ merged_df' = <<>>
            /\ pc' = "raised"
    /\ UNCHANGED <<raw_df, school_df, school_cols, pop_df, final_df, stats_df, out>>
    /\ UNCHANGED other_scripts

(***************************************************************************)
(* calculate_ratio_projections                                             *)
(***************************************************************************)
\* a sequence of non-NaN floats in increasing order
RECURSIVE SortNums(_)
SortNums(xs) ==
    IF xs = <<>> THEN <<>>
    ELSE LET rest == SortNums(Tail(xs))
             x == Head(xs)
             below == SelectSeq(rest, LAMBDA y : Lt(y, x))
             above == SelectSeq(rest, LAMBDA y : ~Lt(y, x))
         IN  below \o <<x>> \o above

\* the first value in place of the smallest
series_min_first(xs) == xs[1]

\* Series.min() and Series.max() of a non-empty sequence of non-NaN floats
series_min(xs) == SortNums(xs)[1]

series_max(xs) == SortNums(xs)[Len(xs)]

\* a median that takes the upper middle value of an even count
series_median_upper(xs) == SortNums(xs)[Len(xs) \div 2 + 1]

\* Series.median(): the mean of the two middle values when the count is even
series_median(xs) ==
    LET s == SortNums(xs)
        n == Len(s)
    IN  IF n % 2 = 1 THEN s[(n + 1) \div 2]
        ELSE Div(Add(s[n \div 2], s[n \div 2 + 1]), Num(2))

\* the selection by region left out: every row of the table, in key order
region_rows_unfiltered(df, region) == SortByKey(Range(df))

\* df[df['region'] == region].sort_values('year')
region_rows(df, region) == SortByKey({df[i] : i \in {j \in DOMAIN df : df[j].region = region}})

\* sorted(df['region'].unique())
sorted_regions(df) ==
    SelectSeq(RegionOrder, LAMBDA r : \E i \in DOMAIN df : df[i].region = r)

\* the year test left out of the selection of historical rows
historical_rows_any_year(region_df) ==
    SelectSeq(region_df, LAMBDA row : notna(row.scuole))

\* historical = region_df[(region_df['scuole'].notna()) & (region_df['year'] > 1990)]
historical_rows(region_df) ==
    SelectSeq(region_df, LAMBDA row : notna(row.scuole) /\ row.year > HistoryCutoff)

\* the population taken even where the enrollment is present
studenti_proj_children_only(row) == row.children_6_10

\* region_df['studenti'].fillna(region_df['children_6_10'])
studenti_proj(row) == IF notna(row.studenti) THEN row.studenti ELSE row.children_6_10

\* region_df['ratio'] = region_df['studenti'] / region_df['scuole']
row_ratio(row) == Div(row.studenti, row.scuole)

\* ratio_values = region_df[region_df['ratio'].notna()]['ratio']
ratio_values(region_df) ==
    LET kept == SelectSeq(region_df, LAMBDA row : notna(row_ratio(row)))
    IN  [i \in DOMAIN kept |-> row_ratio(kept[i])]

\* region_df['scuole_lcl'] = studenti_proj / ratio_ucl and
\* region_df['scuole_ucl'] = studenti_proj / ratio_lcl, without the inversion
scuole_bounds_straight(sp, ratio_lcl, ratio_ucl) ==
    [lcl |-> Div(sp, ratio_lcl), ucl |-> Div(sp, ratio_ucl)]

\* region_df['scuole_lcl'] = region_df['studenti_proj'] / region_df['ratio_ucl']
\* region_df['scuole_ucl'] = region_df['studenti_proj'] / region_df['ratio_lcl']
scuole_bounds(sp, ratio_lcl, ratio_ucl) ==
    [lcl |-> Div(sp, ratio_ucl), ucl |-> Div(sp, ratio_lcl)]

\* the overwrite left out: the modelled value stays
preserve_actual_dropped(scuole, modelled) == modelled

\* region_df.loc[region_df['scuole'].notna(), col] = region_df['scuole']
preserve_actual(scuole, modelled) == IF notna(scuole) THEN scuole ELSE modelled

\* the columns one row of a region that is not skipped gets, given the region's
\* ratio_min, ratio_med and ratio_max
projected_row(row, ratio_min, ratio_med, ratio_max) ==
    LET sp == studenti_proj(row)
        ratio == row_ratio(row)
        observed == notna(row.scuole)
        \* region_df['ratio_hat'] = ratio_med, then the observed rows' own ratio
        ratio_hat == IF observed THEN ratio ELSE ratio_med
        ratio_lcl == IF observed THEN ratio ELSE ratio_min
        ratio_ucl == IF observed THEN ratio ELSE ratio_max
        \* region_df['scuole_hat'] = region_df['studenti_proj'] / region_df['ratio_hat']
        hat == Div(sp, ratio_hat)
        bounds == scuole_bounds(sp, ratio_lcl, ratio_ucl)
    IN  [region |-> row.region, year |-> row.year,
         studenti |-> row.studenti, scuole |-> row.scuole,
         children_6_10 |-> row.children_6_10,
         indicator |-> row.indicator, proj |-> row.proj,
         studenti_proj |-> sp, ratio |-> ratio,
         ratio_hat |-> ratio_hat, ratio_lcl |-> ratio_lcl, ratio_ucl |-> ratio_ucl,
         scuole_hat |-> preserve_actual(row.scuole, hat),
         scuole_lcl |-> preserve_actual(row.scuole, bounds.lcl),
         scuole_ucl |-> preserve_actual(row.scuole, bounds.ucl)]

\* a pass that appends only the rows without scuole of a region it does not skip
project_region_projected_only(df, region) ==
    LET region_df == region_rows(df, region)
        processing == <<[line |-> "Processing", region |-> region]>>
        values == ratio_values(region_df)
        all == [i \in DOMAIN region_df |->
                   projected_row(region_df[i], series_min(values), series_median(values),
                                 series_max(values))]
    IN  IF Len(historical_rows(region_df)) = 0
        THEN [rows |-> <<>>, appended |-> FALSE,
              printed |-> processing \o
                  <<[line |-> "No historical data available", region |-> region]>>]
        ELSE IF Len(values) = 0
        THEN [rows |-> <<>>, appended |-> FALSE, printed |-> processing]
        ELSE [rows |-> SelectSeq(all, LAMBDA row : isna(row.scuole)),
              appended |-> TRUE,
              printed |-> processing \o
                  <<[line |-> "Ratio", region |-> region,
                     ratio_min |-> series_min(values),
                     ratio_med |-> series_median(values),
                     ratio_max |-> series_max(values)]>>]

\* one pass of the loop over regions: the rows appended to results (none when the
\* region is skipped) and the lines printed
project_region(df, region) ==
    LET region_df == region_rows(df, region)
        processing == <<[line |-> "Processing", region |-> region]>>
        values == ratio_values(region_df)
    IN  IF Len(historical_rows(region_df)) = 0
        THEN [rows |-> <<>>, appended |-> FALSE,
              printed |-> processing \o
                  <<[line |-> "No historical data available", region |-> region]>>]
        ELSE IF Len(values) = 0
        THEN [rows |-> <<>>, appended |-> FALSE, printed |-> processing]
        ELSE LET ratio_min == series_min(values)
                 ratio_med == series_median(values)
                 ratio_max == series_max(values)
             IN  [rows |-> [i \in DOMAIN region_df |->
                              projected_row(region_df[i], ratio_min, ratio_med, ratio_max)],
                  appended |-> TRUE,
                  printed |-> processing \o
                      <<[line |-> "Ratio", region |-> region, ratio_min |-> ratio_min,
                         ratio_med |-> ratio_med, ratio_max |-> ratio_max]>>]

\* the whole function: pd.concat(results) raises ValueError when results is empty
calculate_ratio_projections(df) ==
    LET regions == sorted_regions(df)
        passes == [i \in DOMAIN regions |-> project_region(df, regions[i])]
        results == SelectSeq(passes, LAMBDA p : p.appended)
    IN  [raised |-> Len(results) = 0,
         df |-> Concat([i \in DOMAIN results |-> results[i].rows]),
         printed |-> Concat([i \in DOMAIN passes |-> passes[i].printed])]

\* the function on a merged table without the column 'studenti': the regions
\* without historical rows are skipped as usual, and region_df['studenti'] raises
\* KeyError in the first region that has some; pd.concat raises if there is none
calculate_ratio_projections_no_studenti(df) ==
    LET regions == sorted_regions(df)
        with_history == {i \in DOMAIN regions :
                            Len(historical_rows(region_rows(df, regions[i]))) > 0}
        last == IF with_history = {} THEN Len(regions)
                ELSE CHOOSE i \in with_history : \A j \in with_history : i <= j
    IN  [raised |-> TRUE,
         df |-> <<>>,
         printed |-> Concat([i \in 1..last |->
             IF i \in with_history
             THEN <<[line |-> "Processing", region |-> regions[i]]>>
             ELSE project_region(df, regions[i]).printed])]

\* the step writing its table back into the merged table it was given
CalculateRatioProjections_in_place ==
    /\ pc = "calculate_ratio_projections"
    /\ LET r == IF "studenti" \in school_cols
                THEN calculate_ratio_projections(merged_df)
                ELSE calculate_ratio_projections_no_studenti(merged_df)
       IN  /\ out' = out \o r.printed
           /\ final_df' = r.df
           /\ merged_df' = r.df
           /\ pc' = IF r.raised THEN "raised" ELSE "calculate_decline_statistics"
    /\ UNCHANGED <<raw_df, school_df, school_cols, pop_df, stats_df>>
    /\ UNCHANGED other_scripts

CalculateRatioProjections ==
    /\ pc = "calculate_ratio_projections"
    /\ LET r == IF "studenti" \in school_cols
                THEN calculate_ratio_projections(merged_df)
                ELSE calculate_ratio_projections_no_studenti(merged_df)
       IN  /\ out' = out \o r.printed
           /\ final_df' = r.df
           /\ pc' = IF r.raised THEN "raised" ELSE "calculate_decline_statistics"
    /\ UNCHANGED <<raw_df, school_df, school_cols, pop_df, merged_df, stats_df>>
    /\ UNCHANGED other_scripts

(***************************************************************************)
(* calculate_decline_statistics                                            *)
(***************************************************************************)
\* region_df[region_df['year'] == year]['scuole_hat'].values
hat_values(region_df, year) ==
    LET at == SelectSeq(region_df, LAMBDA row : row.year = year)
    IN  [i \in DOMAIN at |-> at[i].scuole_hat]

\* the percentage without the factor 100
pct_change_unscaled(change, baseline) == Div(change, baseline)

\* (change_2050 / baseline_2022[0]) * 100
pct_change(change, baseline) == Mul(Div(change, baseline), Num(100))

\* one pass of the loop over regions: the dict appended to stats, if any
region_stats(df, region) ==
    LET region_df == region_rows(df, region)
        baseline_2022 == hat_values(region_df, BaselineYear)
        proj_2050 == hat_values(region_df, Horizon1)
        proj_2080 == hat_values(region_df, Horizon2)
    IN  IF Len(baseline_2022) > 0 /\ Len(proj_2050) > 0 /\ Len(proj_2080) > 0
        THEN LET baseline == baseline_2022[1]
                 change_2050 == Sub(proj_2050[1], baseline)
                 change_2080 == Sub(proj_2080[1], baseline)
             IN  <<[region |-> region,
                    schools_2022 |-> baseline,
                    schools_2050 |-> proj_2050[1],
                    schools_2080 |-> proj_2080[1],
                    change_2050 |-> change_2050,
                    pct_change_2050 |-> pct_change(change_2050, baseline),
                    change_2080 |-> change_2080,
                    pct_change_2080 |-> pct_change(change_2080, baseline)]>>
        ELSE <<>>

\* sort_values puts x before y: ascending, NaN last
pct_before(x, y) == notna(x) /\ (isna(y) \/ Lt(x, y))

\* the statistics rows left in the order of the loop over regions
sort_by_pct_change_2050_skipped(stats) == stats

\* stats_df.sort_values('pct_change_2050'): rows of equal value keep their order
RECURSIVE sort_by_pct_change_2050(_)
sort_by_pct_change_2050(stats) ==
    IF stats = <<>> THEN <<>>
    ELSE LET rest == sort_by_pct_change_2050(Tail(stats))
             x == Head(stats)
             before == SelectSeq(rest,
                 LAMBDA y : pct_before(y.pct_change_2050, x.pct_change_2050))
             after == SelectSeq(rest,
                 LAMBDA y : ~pct_before(y.pct_change_2050, x.pct_change_2050))
         IN  before \o <<x>> \o after

\* the whole function: sort_values('pct_change_2050') raises KeyError on the
\* column-less DataFrame an empty stats list makes
calculate_decline_statistics(df) ==
    LET regions == sorted_regions(df)
        stats == Concat([i \in DOMAIN regions |-> region_stats(df, regions[i])])
        sorted == sort_by_pct_change_2050(stats)
        top == SubSeq(sorted, 1, IF Len(sorted) < 10 THEN Len(sorted) ELSE 10)
    IN  [raised |-> Len(stats) = 0,
         df |-> sorted,
         printed |-> [i \in DOMAIN top |->
                        [line |-> "Top 10", region |-> top[i].region,
                         pct_change_2050 |-> top[i].pct_change_2050]]]

CalculateDeclineStatistics ==
    /\ pc = "calculate_decline_statistics"
    /\ LET r == calculate_decline_statistics(final_df)
       IN  /\ stats_df' = (IF r.raised THEN <<>> ELSE r.df)
           /\ out' = (IF r.raised THEN out ELSE out \o r.printed)
           /\ pc' = IF r.raised THEN "raised" ELSE "save_results"
    /\ UNCHANGED <<raw_df, school_df, school_cols, pop_df, merged_df, final_df>>
    /\ UNCHANGED other_scripts

Next ==
    \/ MergeData
    \/ CalculateRatioProjections
    \/ CalculateDeclineStatistics

Spec == Init /\ [][Next]_vars

NextRaw ==
    \/ ProcessSchoolData
    \/ MergeData
    \/ CalculateRatioProjections
    \/ CalculateDeclineStatistics

SpecRaw == InitRaw /\ [][NextRaw]_vars

(***************************************************************************)
(* src/download_schools_by_region.py                                       *)
(*                                                                         *)
(* download is a record: pc is main()'s position, df the list holding the  *)
(* table a strategy returned (empty for None), id_index the position of    *)
(* the loop over dataset_ids, tried the dataset ids and direct strategies  *)
(* attempted so far, saved the files written and printed the closing       *)
(* messages.  What the network answers is chosen at each attempt.  A table *)
(* is described by its number of rows, whether it has one of the year      *)
(* columns, and how many of its rows are of 2010 or later.                 *)
(***************************************************************************)
\* most rows of a downloaded table
MaxDownloadRows == 3

\* df is None
None == <<>>

\* dataset_ids of download_with_pandasdmx, in list order
dataset_ids ==
    <<"52_1044_DF_DCIS_SCUOLE_5", "DCIS_SCUOLE_5", "52_1044", "DF_DCIS_SCUOLE_5">>

\* the tables a strategy can return
DownloadTables ==
    {t \in [rows : 0..MaxDownloadRows, year_col : BOOLEAN, recent : 0..MaxDownloadRows] :
        /\ t.recent <= t.rows
        /\ ~t.year_col => t.recent = 0}

\* main() calling the second strategy although the first returned a table
after_pandasdmx_always_requests(df) == "download_with_requests"

\* main() after download_with_pandasdmx: "if df is None" guards Method 2
after_pandasdmx(df) ==
    IF df = None THEN "download_with_requests" ELSE "process_and_save_data"

\* main() after download_with_requests: "if df is None" guards Method 3
after_requests(df) ==
    IF df = None THEN "download_with_csv_direct" ELSE "process_and_save_data"

\* main() after download_with_csv_direct: "if df is not None" / else
after_csv_direct(df) ==
    IF df = None THEN "all_methods_failed" ELSE "process_and_save_data"

\* the files process_and_save_data writes for a table
files_saved(t) ==
    IF t.rows = 0 THEN {}
    ELSE {"schools_by_region_raw.csv"} \cup
         (IF t.year_col /\ t.recent > 0 THEN {"schools_by_region_2010_onwards.csv"} ELSE {})

InitDownload ==
    /\ download = [pc |-> "import_pandasdmx", df |-> None, id_index |-> 1,
                   tried |-> <<>>, saved |-> {}, printed |-> <<>>]
    /\ istat = NotRun /\ maps = NotRun
    /\ raw_df = <<>> /\ school_df = <<>> /\ school_cols = {} /\ pop_df = <<>>
    /\ merged_df = <<>> /\ final_df = <<>> /\ stats_df = <<>> /\ out = <<>>
    /\ pc = "not_run"

\* the head of download_with_pandasdmx: the import, or the pip install and the
\* second import, which raise out of main() when they fail
ImportPandasdmx ==
    /\ download.pc = "import_pandasdmx"
    /\ \E ok \in BOOLEAN :
          download' = [download EXCEPT
              !.pc = IF ok THEN "download_with_pandasdmx" ELSE "raised"]
    /\ UNCHANGED <<pipeline, istat, maps>>

\* one pass of the loop over dataset_ids: the download raises (continue), or
\* gives a table, which is returned at once
TryDataflow ==
    /\ download.pc = "download_with_pandasdmx"
    /\ LET i == download.id_index
           tried == Append(download.tried, dataset_ids[i])
       IN  \/ \E t \in DownloadTables :
                 download' = [download EXCEPT
                     !.tried = tried, !.df = <<t>>, !.pc = after_pandasdmx(<<t>>)]
           \/ /\ i < Len(dataset_ids)
              /\ download' = [download EXCEPT !.tried = tried, !.id_index = i + 1]
           \/ /\ i = Len(dataset_ids)
              /\ download' = [download EXCEPT
                     !.tried = tried, !.df = None, !.pc = after_pandasdmx(None)]
    /\ UNCHANGED <<pipeline, istat, maps>>

\* download_with_requests: "import requests" raises out of main(); the request
\* or the parse fails (None); or pd.DataFrame(observations) is returned, with no
\* row and no column when there is no observation
DownloadWithRequests ==
    /\ download.pc = "download_with_requests"
    /\ LET tried == Append(download.tried, "requests")
       IN  \/ download' = [download EXCEPT !.tried = tried, !.pc = "raised"]
           \/ download' = [download EXCEPT
                  !.tried = tried, !.df = None, !.pc = after_requests(None)]
           \/ \E t \in DownloadTables :
                 /\ t.rows = 0 => ~t.year_col
                 /\ download' = [download EXCEPT
                        !.tried = tried, !.df = <<t>>, !.pc = after_requests(<<t>>)]
    /\ UNCHANGED <<pipeline, istat, maps>>

\* download_with_csv_direct: any failure gives None; pd.read_csv gives a table
DownloadWithCsvDirect ==
    /\ download.pc = "download_with_csv_direct"
    /\ LET tried == Append(download.tried, "csv_direct")
       IN  \/ download' = [download EXCEPT
                  !.tried = tried, !.df = None, !.pc = after_csv_direct(None)]
           \/ \E t \in DownloadTables :
                 download' = [download EXCEPT
                     !.tried = tried, !.df = <<t>>, !.pc = after_csv_direct(<<t>>)]
    /\ UNCHANGED <<pipeline, istat, maps>>

\* process_and_save_data(df), called when df is not None
ProcessAndSaveData ==
    /\ download.pc = "process_and_save_data"
    /\ LET t == download.df[1]
       IN  download' = [download EXCEPT
               !.saved = files_saved(t),
               !.printed = IF t.rows = 0 THEN <<"No data to process">>
                           ELSE <<"Download and processing complete!">>,
               !.pc = "done"]
    /\ UNCHANGED <<pipeline, istat, maps>>

\* the else branch of main(): every strategy returned None
AllMethodsFailed ==
    /\ download.pc = "all_methods_failed"
    /\ download' = [download EXCEPT
           !.printed = <<"All download methods failed">>, !.pc = "done"]
    /\ UNCHANGED <<pipeline, istat, maps>>

NextDownload ==
    \/ ImportPandasdmx
    \/ TryDataflow
    \/ DownloadWithRequests
    \/ DownloadWithCsvDirect
    \/ ProcessAndSaveData
    \/ AllMethodsFailed

SpecDownload == InitDownload /\ [][NextDownload]_vars

(***************************************************************************)
(* src/process_istat_schools_manual.py: process_istat_school_file          *)
(*                                                                         *)
(* istat is a record: pc is the function's position, enc_index and         *)
(* sep_index the positions of the two loops, df the list holding the last  *)
(* table pd.read_csv gave (empty for None), tried the (encoding,           *)
(* separator) pairs read so far, and result the list holding the returned  *)
(* table (empty for None).  What pd.read_csv does with the file under a    *)
(* pair is chosen at each pass: it raises, or gives a table of some number *)
(* of columns, described by that number and the pair.                      *)
(***************************************************************************)
\* most columns of a parsed table
MaxColumns == 3

encodings == <<"utf-8", "utf-8-sig", "latin-1", "iso-8859-1", "cp1252">>

\* separators: comma, semicolon, tab
separators == <<",", ";", "\t">>

InitIstat ==
    /\ istat = [pc |-> "read_csv", enc_index |-> 1, sep_index |-> 1, df |-> None,
                tried |-> <<>>, result |-> None, printed |-> <<>>]
    /\ download = NotRun /\ maps = NotRun
    /\ raw_df = <<>> /\ school_df = <<>> /\ school_cols = {} /\ pop_df = <<>>
    /\ merged_df = <<>> /\ final_df = <<>> /\ stats_df = <<>> /\ out = <<>>
    /\ pc = "not_run"

\* the position of the loops after a pass that does not return
next_pass(rec) ==
    IF rec.sep_index < Len(separators)
    THEN [rec EXCEPT !.sep_index = rec.sep_index + 1]
    ELSE IF rec.enc_index < Len(encodings)
    THEN [rec EXCEPT !.enc_index = rec.enc_index + 1, !.sep_index = 1]
    ELSE [rec EXCEPT !.pc = "after_loops"]

\* one pass of the inner loop: pd.read_csv raises (continue, df keeps its value),
\* or assigns df, which is returned if it has more than one column
TryReadCsv ==
    /\ istat.pc = "read_csv"
    /\ LET pair == <<encodings[istat.enc_index], separators[istat.sep_index]>>
           tried == [istat EXCEPT !.tried = Append(istat.tried, pair)]
       IN  \/ istat' = next_pass(tried)
           \/ \E n \in 1..MaxColumns :
                 LET t == [columns |-> n, encoding |-> pair[1], sep |-> pair[2]]
                 IN  istat' = IF n > 1
                               THEN [tried EXCEPT !.df = <<t>>, !.result = <<t>>,
                                                  !.printed = <<"Loaded">>,
                                                  !.pc = "returned"]
                               ELSE next_pass([tried EXCEPT !.df = <<t>>])
    /\ UNCHANGED <<pipeline, download, maps>>

\* after the loops: None if df is None, else df
ReturnAfterLoops ==
    /\ istat.pc = "after_loops"
    /\ istat' = [istat EXCEPT
           !.result = istat.df,
           !.printed = IF istat.df = None THEN <<"Could not parse file">> ELSE <<>>,
           !.pc = "returned"]
    /\ UNCHANGED <<pipeline, download, maps>>

NextIstat ==
    \/ TryReadCsv
    \/ ReturnAfterLoops

SpecIstat == InitIstat /\ [][NextIstat]_vars

(***************************************************************************)
(* src/create_regional_maps.py: load_and_prepare_data                      *)
(*                                                                         *)
(* maps is a record: pc is the function's position, shapefile the COD_REG  *)
(* of the shapes read, stats the region names of the rows of               *)
(* regional_school_decline_statistics.csv, and gdf the joined table: for   *)
(* each shape its COD_REG, its region name and whether the left merge      *)
(* found a statistics row for it.                                          *)
(***************************************************************************)
\* most shapes of the shapefile
MaxShapes == 2

\* the dict COD_REG_TO_REGION: pairs of COD_REG and region name
COD_REG_TO_REGION ==
    { <<1, "Piemonte">>, <<2, "Valle d'Aosta">>, <<3, "Lombardia">>,
      <<4, "Trentino-Alto Adige">>, <<5, "Veneto">>, <<6, "Friuli-Venezia Giulia">>,
      <<7, "Liguria">>, <<8, "Emilia-Romagna">>, <<9, "Toscana">>, <<10, "Umbria">>,
      <<11, "Marche">>, <<12, "Lazio">>, <<13, "Abruzzo">>, <<14, "Molise">>,
      <<15, "Campania">>, <<16, "Puglia">>, <<17, "Basilicata">>, <<18, "Calabria">>,
      <<19, "Sicilia">>, <<20, "Sardegna">> }

\* gdf['COD_REG'].map(COD_REG_TO_REGION), for a code of the dict
cod_reg_region(cod_reg) == (CHOOSE p \in COD_REG_TO_REGION : p[1] = cod_reg)[2]

\* the region names process_school_data can give a row, and so the statistics
\* table a region: the values of NUTS_TO_REGION under a code of four characters
EmittableRegions == {p[2] : p \in {q \in NUTS_TO_REGION : Len(q[1]) = 4}}

\* the shapefiles: at most MaxShapes shapes of different COD_REG, in code order
Shapefiles ==
    {YearsAsc(S) : S \in {T \in SUBSET {p[1] : p \in COD_REG_TO_REGION} :
                              Cardinality(T) <= MaxShapes}}

\* the statistics files: a row for every region the pipeline can emit, for two
\* of them, or for none
StatsFiles == {EmittableRegions, {FirstRegion, SecondRegion}, {}}

InitMaps ==
    /\ \E s \in Shapefiles, t \in StatsFiles :
          maps = [pc |-> "load_and_prepare_data", shapefile |-> s, stats |-> t,
                  gdf |-> <<>>, printed |-> <<>>]
    /\ download = NotRun /\ istat = NotRun
    /\ raw_df = <<>> /\ school_df = <<>> /\ school_cols = {} /\ pop_df = <<>>
    /\ merged_df = <<>> /\ final_df = <<>> /\ stats_df = <<>> /\ out = <<>>
    /\ pc = "not_run"

\* gdf.merge(stats_df, on='region', how='left') after the map of COD_REG, and the
\* warning that lists the regions without data
load_and_prepare_data(shapefile, stats) ==
    LET gdf == [i \in DOMAIN shapefile |->
                   [COD_REG |-> shapefile[i],
                    region |-> cod_reg_region(shapefile[i]),
                    has_data |-> cod_reg_region(shapefile[i]) \in stats]]
        missing == SelectSeq(gdf, LAMBDA row : ~row.has_data)
    IN  [gdf |-> gdf, printed |-> [i \in DOMAIN missing |-> missing[i].region]]

LoadAndPrepareData ==
    /\ maps.pc = "load_and_prepare_data"
    /\ LET r == load_and_prepare_data(maps.shapefile, maps.stats)
       IN  maps' = [maps EXCEPT !.gdf = r.gdf, !.printed = r.printed, !.pc = "done"]
    /\ UNCHANGED <<pipeline, download, istat>>

NextMaps == LoadAndPrepareData

SpecMaps == InitMaps /\ [][NextMaps]_vars

(***************************************************************************)
(* Properties.                                                             *)
(***************************************************************************)
\* calculate_ratio_projections has returned its table (final_df)
ProjectorReturned ==
    \/ pc \in {"calculate_decline_statistics", "save_results"}
    \/ pc = "raised" /\ final_df # <<>>

RegionsOf(df) == {df[i].region : i \in DOMAIN df}

\* the Ratio line printed for a region: its ratio_min, ratio_med, ratio_max
RatioLine(region) ==
    out[CHOOSE i \in DOMAIN out : out[i].line = "Ratio" /\ out[i].region = region]

\* C1: every row of the projector's table whose scuole is present has scuole_hat,
\* scuole_lcl and scuole_ucl equal to that scuole
C1_PassThrough ==
    \A i \in DOMAIN final_df :
        notna(final_df[i].scuole) =>
            /\ final_df[i].scuole_hat = final_df[i].scuole
            /\ final_df[i].scuole_lcl = final_df[i].scuole
            /\ final_df[i].scuole_ucl = final_df[i].scuole

\* an observed row for which studenti_proj / ratio_hat is not the observed count
C1_Witness ==
    \E i \in DOMAIN final_df :
        /\ notna(final_df[i].scuole)
        /\ Div(final_df[i].studenti_proj, final_df[i].ratio_hat) # final_df[i].scuole
        /\ final_df[i].scuole_hat = final_df[i].scuole

\* the ordering of the three projected counts of a row
BoundsOrdered(row) ==
    Le(row.scuole_lcl, row.scuole_hat) /\ Le(row.scuole_hat, row.scuole_ucl)

RatiosOrdered(row) ==
    Le(row.ratio_lcl, row.ratio_hat) /\ Le(row.ratio_hat, row.ratio_ucl)

ProxyOf(row) == IF notna(row.studenti) THEN row.studenti ELSE row.children_6_10

CountOf(xs, Test(_)) == Cardinality({i \in DOMAIN xs : Test(xs[i])})

\* minimum, median and maximum of a non-empty sequence of floats by their
\* definitions: the median is the mean of the lower and the upper middle value
SummaryOf(xs) ==
    LET n == Len(xs)
        half == n \div 2
        vals == Range(xs)
        lo == CHOOSE a \in vals :
                /\ CountOf(xs, LAMBDA v : Le(v, a)) >= n - half
                /\ CountOf(xs, LAMBDA v : Le(a, v)) >= half + 1
        hi == CHOOSE b \in vals :
                /\ CountOf(xs, LAMBDA v : Le(v, b)) >= half + 1
                /\ CountOf(xs, LAMBDA v : Le(b, v)) >= n - half
    IN  [ratio_min |-> CHOOSE a \in vals : \A v \in vals : Le(a, v),
         ratio_med |-> Div(Add(lo, hi), Num(2)),
         ratio_max |-> CHOOSE a \in vals : \A v \in vals : Le(v, a)]

\* enrollment / schoolCount of the merged rows of a region that satisfy Keep
RatiosOf(region, Keep(_)) ==
    LET kept == SelectSeq(merged_df, LAMBDA row : row.region = region /\ Keep(row))
    IN  [i \in DOMAIN kept |-> Div(kept[i].studenti, kept[i].scuole)]

SummaryLine(line) ==
    [ratio_min |-> line.ratio_min, ratio_med |-> line.ratio_med,
     ratio_max |-> line.ratio_max]

C4_PostCutoffOnly ==
    \A i \in DOMAIN out :
        out[i].line = "Ratio" =>
            LET vals == RatiosOf(out[i].region,
                          LAMBDA m : /\ m.year > HistoryCutoff
                                     /\ notna(Div(m.studenti, m.scuole)))
            IN  vals # <<>> /\ SummaryLine(out[i]) = SummaryOf(vals)

\* C5 as stated, for merged tables that have rows: the run never leaves main()
\* by an exception
C5_PipelineCompletes == merged_df # <<>> => pc # "raised"

\* C6 as stated: every statistics row has defined schools_2022, schools_2050 and
\* schools_2080
C6_StatsDefined ==
    \A i \in DOMAIN stats_df :
        /\ notna(stats_df[i].schools_2022)
        /\ notna(stats_df[i].schools_2050)
        /\ notna(stats_df[i].schools_2080)

\* C7 as stated: a merged row is tagged '' exactly when its scuole is present and
\* its year is at most 2022, and 'BSL' otherwise
C7_Original ==
    \A i \in DOMAIN merged_df :
        LET row == merged_df[i]
        IN  IF notna(row.scuole) /\ row.year <= BaselineYear
            THEN row.proj = "" ELSE row.proj = "BSL"

\* C7 amended: a merged row is tagged 'BSL' exactly when it comes from the
\* population table alone, or its scuole is missing and its year is at least
\* 2023, and '' otherwise
C7_Amended ==
    \A i \in DOMAIN merged_df :
        LET row == merged_df[i]
        IN  IF \/ row.indicator = "right_only"
               \/ isna(row.scuole) /\ row.year >= FirstProjectedYear
            THEN row.proj = "BSL" ELSE row.proj = ""

\* the cases that tell the two readings apart, in one merged table: a row of both
\* tables without scuole before 2023 (tagged ''), a row with scuole after 2022
\* (tagged ''), a row of both tables without scuole after 2022 (tagged 'BSL') and
\* a population-only row (tagged 'BSL')
C7_Witness ==
    /\ \E i \in DOMAIN merged_df :
          /\ merged_df[i].indicator = "both" /\ isna(merged_df[i].scuole)
          /\ merged_df[i].year < FirstProjectedYear /\ merged_df[i].proj = ""
    /\ \E i \in DOMAIN merged_df :
          /\ notna(merged_df[i].scuole)
          /\ merged_df[i].year >= FirstProjectedYear /\ merged_df[i].proj = ""
    /\ \E i \in DOMAIN merged_df :
          /\ merged_df[i].indicator = "both" /\ isna(merged_df[i].scuole)
          /\ merged_df[i].year >= FirstProjectedYear /\ merged_df[i].proj = "BSL"
    /\ \E i \in DOMAIN merged_df :
          /\ merged_df[i].indicator = "right_only" /\ merged_df[i].proj = "BSL"

HasHistory(region) ==
    \E i \in DOMAIN merged_df :
        /\ merged_df[i].region = region
        /\ notna(merged_df[i].scuole)
        /\ merged_df[i].year > HistoryCutoff

HasRatio(region) ==
    \E i \in DOMAIN merged_df :
        /\ merged_df[i].region = region
        /\ notna(Div(merged_df[i].studenti, merged_df[i].scuole))

\* C8: in the table the projector returns, a region without a row that has scuole
\* and year > 1990 is absent, and a region with such a row and a defined ratio is
\* present
C8_SkipNoHistory ==
    ProjectorReturned =>
        \A r \in RegionsOf(merged_df) :
            /\ ~HasHistory(r) => r \notin RegionsOf(final_df)
            /\ (HasHistory(r) /\ HasRatio(r)) => r \in RegionsOf(final_df)

\* the projector returned a table without a region whose only school counts are
\* of 1990 or before, and with the other region
C8_Witness ==
    /\ ProjectorReturned
    /\ \E r \in RegionsOf(merged_df) \ RegionsOf(final_df) :
          /\ ~HasHistory(r)
          /\ HasRatio(r)
    /\ \E r \in RegionsOf(final_df) : HasHistory(r) /\ HasRatio(r)

\* a printed line that reports a skip of the region
SkipReported(region) ==
    \E i \in DOMAIN out :
        /\ out[i].region = region
        /\ out[i].line \notin {"Processing", "Ratio", "Top 10"}

\* C9 as stated: every region the projector skips, and every region the
\* statistics leave out, has a printed line that reports it
C9_SkipsReported ==
    /\ ProjectorReturned =>
          \A r \in RegionsOf(merged_df) \ RegionsOf(final_df) : SkipReported(r)
    /\ pc = "save_results" =>
          \A r \in RegionsOf(final_df) \ {stats_df[i].region : i \in DOMAIN stats_df} :
              SkipReported(r)

\* C10 as stated: the ratio summary of a region is that of its rows whose scuole
\* is neither missing nor zero
C10_ZeroSchoolsExcluded ==
    \A i \in DOMAIN out :
        out[i].line = "Ratio" =>
            LET vals == RatiosOf(out[i].region,
                          LAMBDA m : /\ notna(m.studenti)
                                     /\ notna(m.scuole)
                                     /\ m.scuole # Num(0))
            IN  vals # <<>> /\ SummaryLine(out[i]) = SummaryOf(vals)

\* a divisor that is zero or missing
ZeroOrMissing(x) == x = Num(0) \/ isna(x)

\* C11 as stated: on a projected row (scuole missing) whose ratio_hat, ratio_ucl or
\* ratio_lcl is zero or missing, the count divided by it (scuole_hat, scuole_lcl,
\* scuole_ucl respectively) is missing
C11_ZeroDivisorMissing ==
    \A i \in DOMAIN final_df :
        LET row == final_df[i]
        IN  isna(row.scuole) =>
              /\ ZeroOrMissing(row.ratio_hat) => isna(row.scuole_hat)
              /\ ZeroOrMissing(row.ratio_ucl) => isna(row.scuole_lcl)
              /\ ZeroOrMissing(row.ratio_lcl) => isna(row.scuole_ucl)

\* C12 as stated: pct_change_2050 is non-decreasing from each row of the
\* statistics table to the next
C12_Original ==
    \A i \in DOMAIN stats_df :
        i + 1 \in DOMAIN stats_df =>
            Le(stats_df[i].pct_change_2050, stats_df[i + 1].pct_change_2050)

\* C12 amended: the rows whose pct_change_2050 is defined come first, in
\* non-decreasing order of it, and the rows whose pct_change_2050 is undefined
\* come after all of them
C12_Amended ==
    \A i, j \in DOMAIN stats_df :
        i < j =>
            /\ (notna(stats_df[i].pct_change_2050) /\ notna(stats_df[j].pct_change_2050))
                  => Le(stats_df[i].pct_change_2050, stats_df[j].pct_change_2050)
            /\ isna(stats_df[i].pct_change_2050) => isna(stats_df[j].pct_change_2050)

\* a statistics table the sort reordered: the second region first with a defined
\* percentage, the first region after it with an undefined one
C12_Witness ==
    /\ Len(stats_df) = 2
    /\ stats_df[1].region = SecondRegion /\ notna(stats_df[1].pct_change_2050)
    /\ stats_df[2].region = FirstRegion /\ isna(stats_df[2].pct_change_2050)

\* the scuole_hat of the projector's row of a region at a year
HatAt(region, year) ==
    final_df[CHOOSE i \in DOMAIN final_df :
                final_df[i].region = region /\ final_df[i].year = year].scuole_hat

\* C13: every row of the statistics table has change_H = scuole_hat(H) -
\* scuole_hat(2022) and pct_change_H = 100 * change_H / scuole_hat(2022) for
\* H = 2050 and H = 2080, the scuole_hat being those of the region's rows of the
\* projector's table at 2022, 2050 and 2080
C13_ChangeAndPercent ==
    \A i \in DOMAIN stats_df :
        LET s == stats_df[i]
            base == HatAt(s.region, BaselineYear)
            c1 == Sub(HatAt(s.region, Horizon1), base)
            c2 == Sub(HatAt(s.region, Horizon2), base)
        IN  /\ \A y \in {BaselineYear, Horizon1, Horizon2} :
                  \E k \in DOMAIN final_df :
                      final_df[k].region = s.region /\ final_df[k].year = y
            /\ s.schools_2022 = base
            /\ s.change_2050 = c1
            /\ s.change_2080 = c2
            /\ s.pct_change_2050 = Div(Mul(Num(100), c1), base)
            /\ s.pct_change_2080 = Div(Mul(Num(100), c2), base)

\* the spec's scenario in small numbers: a baseline of 2 schools and a 2050 value
\* of 1 give change_2050 = -1 and pct_change_2050 = -50, with a 2080 value of
\* 1/2 (change -3/2, -75 percent)
C13_Witness ==
    \E i \in DOMAIN stats_df :
        /\ stats_df[i].schools_2022 = Num(2)
        /\ stats_df[i].schools_2050 = Num(1)
        /\ stats_df[i].change_2050 = Num(-1)
        /\ stats_df[i].pct_change_2050 = Num(-50)
        /\ stats_df[i].schools_2080 = Norm(1, 2)
        /\ stats_df[i].pct_change_2080 = Num(-75)

\* merge_data has returned its table (merged_df)
MergerReturned == pc # "merge_data"

\* the regions that have rows in exactly one of the two input tables
OneSided == (RegionsOf(school_df) \ RegionsOf(pop_df)) \cup
            (RegionsOf(pop_df) \ RegionsOf(school_df))

KeysOf(df, region) == {Key(df[i]) : i \in {j \in DOMAIN df : df[j].region = region}}

\* C14 as stated: a region with rows in only one input table has no row in the
\* merged table
C14_Original ==
    MergerReturned => \A r \in OneSided : r \notin RegionsOf(merged_df)

\* C14 amended: a region with rows in only one input table keeps every one of
\* them in the merged table, the fields of the other table missing: school-only
\* rows have children_6_10 missing, population-only rows have studenti and scuole
\* missing and are tagged 'BSL'
C14_Amended ==
    MergerReturned =>
        /\ \A r \in RegionsOf(school_df) \ RegionsOf(pop_df) :
              /\ KeysOf(merged_df, r) = KeysOf(school_df, r)
              /\ \A i \in DOMAIN merged_df :
                    merged_df[i].region = r =>
                        /\ isna(merged_df[i].children_6_10)
                        /\ \E k \in DOMAIN school_df :
                              /\ Key(school_df[k]) = Key(merged_df[i])
                              /\ school_df[k].studenti = merged_df[i].studenti
                              /\ school_df[k].scuole = merged_df[i].scuole
        /\ \A r \in RegionsOf(pop_df) \ RegionsOf(school_df) :
              /\ KeysOf(merged_df, r) = KeysOf(pop_df, r)
              /\ \A i \in DOMAIN merged_df :
                    merged_df[i].region = r =>
                        /\ isna(merged_df[i].studenti) /\ isna(merged_df[i].scuole)
                        /\ merged_df[i].proj = "BSL"
                        /\ \E k \in DOMAIN pop_df :
                              /\ Key(pop_df[k]) = Key(merged_df[i])
                              /\ pop_df[k].children_6_10 = merged_df[i].children_6_10

\* a merged table with a school-only region and a population-only region, each
\* with its rows
C14_Witness ==
    /\ MergerReturned
    /\ FirstRegion \in RegionsOf(school_df) \ RegionsOf(pop_df)
    /\ SecondRegion \in RegionsOf(pop_df) \ RegionsOf(school_df)
    /\ Cardinality(KeysOf(merged_df, FirstRegion)) = 2
    /\ Cardinality(KeysOf(merged_df, SecondRegion)) = 3

\* the projector printed a Ratio line for the region
HasSummary(region) ==
    \E i \in DOMAIN out : out[i].line = "Ratio" /\ out[i].region = region

\* C19: every ratio summary the projector computes has ratio_min <= ratio_med <=
\* ratio_max, and it computes one for every region that has a row with scuole
\* after 1990 and a row with a defined ratio
C19_SummaryOrdered ==
    /\ \A i \in DOMAIN out :
          out[i].line = "Ratio" =>
              /\ Le(out[i].ratio_min, out[i].ratio_med)
              /\ Le(out[i].ratio_med, out[i].ratio_max)
    /\ ProjectorReturned =>
          \A r \in RegionsOf(merged_df) : (HasHistory(r) /\ HasRatio(r)) => HasSummary(r)

\* a summary of three different finite values, the smallest of them not the first
\* in year order
C19_Witness ==
    \E i \in DOMAIN out :
        /\ out[i].line = "Ratio"
        /\ Lt(out[i].ratio_min, out[i].ratio_med)
        /\ Lt(out[i].ratio_med, out[i].ratio_max)
        /\ IsFinite(out[i].ratio_max)
        /\ Len(RatiosOf(out[i].region, LAMBDA m : notna(Div(m.studenti, m.scuole)))) = 3
        /\ RatiosOf(out[i].region, LAMBDA m : notna(Div(m.studenti, m.scuole)))[1]
              # out[i].ratio_min

\* the rows of a table that belong to a region, in the table's order
OnlyRegion(df, region) == SelectSeq(df, LAMBDA row : row.region = region)

\* C20: the rows of a region in the projector's table are the rows the projector
\* gives for the merged table cut down to that region alone, whatever the rows
\* of the other regions are
C20_NoCrossRegion ==
    ProjectorReturned =>
        \A r \in RegionsOf(merged_df) :
            OnlyRegion(final_df, r) =
                calculate_ratio_projections(OnlyRegion(merged_df, r)).df

\* two regions in the projector's table with different ratio medians, each with
\* a projected row
C20_Witness ==
    /\ ProjectorReturned
    /\ \E i, j \in DOMAIN final_df :
          /\ final_df[i].region = FirstRegion /\ isna(final_df[i].scuole)
          /\ final_df[j].region = SecondRegion /\ isna(final_df[j].scuole)
          /\ final_df[i].ratio_hat # final_df[j].ratio_hat
          /\ IsFinite(final_df[i].scuole_hat) /\ IsFinite(final_df[j].scuole_hat)

StatsRegions == {stats_df[i].region : i \in DOMAIN stats_df}

\* the raw table has a row that passes the row filter for each data type, with an
\* area code of four characters that is no key of NUTS_TO_REGION
UnmappedAreaRows ==
    \A t \in {"SCHO", "ENR"} :
        \E i \in DOMAIN raw_df :
            /\ passes_filter(raw_df[i])
            /\ raw_df[i].DATA_TYPE = t
            /\ Len(raw_df[i].REF_AREA) = 4
            /\ \A p \in NUTS_TO_REGION : p[1] # raw_df[i].REF_AREA

\* C15: the region whose area code is not in NUTS_TO_REGION has no row in the
\* school table, in the projector's table or in the statistics table, and no row
\* of these tables is without a region name
C15_UnmappedRegionAbsent ==
    /\ UnmappedRegion \notin RegionsOf(school_df) \cup RegionsOf(final_df) \cup StatsRegions
    /\ MissingRegion \notin RegionsOf(school_df) \cup RegionsOf(final_df) \cup StatsRegions

\* a run to the end on raw rows of an unmapped area with school counts and
\* enrollment and population rows of that region: the population rows are in the
\* merged table, and the projection and statistics tables have another region
C15_Witness ==
    /\ pc = "save_results"
    /\ UnmappedAreaRows
    /\ UnmappedRegion \in RegionsOf(pop_df)
    /\ UnmappedRegion \in RegionsOf(merged_df)
    /\ final_df # <<>> /\ stats_df # <<>>

\* process_school_data has returned its table (school_df), under SpecRaw
SchoolDataReturned == pc # "process_school_data"

\* the raw rows of an area, year and data type that satisfy the three conditions
\* on sex, citizenship and management
GroupOf(ref_area, year, data_type) ==
    {i \in DOMAIN raw_df :
        /\ raw_df[i].SEX = "T" /\ raw_df[i].CITIZENSHIP = "TOTAL"
        /\ raw_df[i].TYPE_SCHOOL_MANAGEMENT = "ALL"
        /\ raw_df[i].DATA_TYPE = data_type
        /\ raw_df[i].REF_AREA = ref_area /\ raw_df[i].obsTime = year}

\* the sum of obsValue over a set of raw rows
RECURSIVE ValueSum(_)
ValueSum(I) ==
    IF I = {} THEN 0
    ELSE LET i == CHOOSE k \in I : TRUE
         IN  raw_df[i].obsValue + ValueSum(I \ {i})

\* the count the claim gives an area, year and data type
SumOrMissing(ref_area, year, data_type) ==
    IF GroupOf(ref_area, year, data_type) = {} THEN NaN
    ELSE Num(ValueSum(GroupOf(ref_area, year, data_type)))

\* C17: every row of the table process_school_data returns has as scuole the sum
\* of the values of all the filtered raw rows of its area and year with DATA_TYPE
\* 'SCHO', and as studenti the sum of those with DATA_TYPE 'ENR' (missing where
\* there is no such row)
C17_SummedOnCollision ==
    SchoolDataReturned =>
        \A i \in DOMAIN school_df :
            LET row == school_df[i]
            IN  /\ row.scuole = SumOrMissing(row.ref_area, row.year, "SCHO")
                /\ row.studenti = SumOrMissing(row.ref_area, row.year, "ENR")

\* a raw table with the same 'SCHO' row twice and an 'ENR' row of the same area
\* and year: the returned row has the doubled school count
C17_Witness ==
    /\ SchoolDataReturned
    /\ \E i, j \in DOMAIN raw_df :
          /\ i < j /\ raw_df[i] = raw_df[j]
          /\ Cardinality(GroupOf(raw_df[i].REF_AREA, raw_df[i].obsTime, "SCHO")) = 2
          /\ raw_df[i].DATA_TYPE = "SCHO"
          /\ \E k \in DOMAIN school_df :
                /\ school_df[k].ref_area = raw_df[i].REF_AREA
                /\ school_df[k].year = raw_df[i].obsTime
                /\ school_df[k].scuole = Num(2 * raw_df[i].obsValue)
                /\ school_df[k].scuole = Num(4)
                /\ school_df[k].studenti = Num(2)

\* C18: no two rows of the table process_school_data returns have the same
\* region and year
C18_OneRowPerRegionYear ==
    \A i, j \in DOMAIN school_df :
        i # j => Key(school_df[i]) # Key(school_df[j])

\* a returned table with rows of two regions at two years: one with both values,
\* one with the enrollment alone and one with the school count alone
C18_Witness ==
    /\ SchoolDataReturned
    /\ \E i, j, k \in DOMAIN school_df :
          /\ notna(school_df[i].studenti) /\ notna(school_df[i].scuole)
          /\ notna(school_df[j].studenti) /\ isna(school_df[j].scuole)
          /\ isna(school_df[k].studenti) /\ notna(school_df[k].scuole)
          /\ school_df[i].region = school_df[j].region
          /\ school_df[i].region # school_df[k].region
          /\ school_df[j].year = school_df[k].year

\* the raw rows the claim says contribute: the four conditions on the row and a
\* 4-character area code that is a key of NUTS_TO_REGION
Contributes(row) ==
    /\ row.SEX = "T"
    /\ row.CITIZENSHIP = "TOTAL"
    /\ row.TYPE_SCHOOL_MANAGEMENT = "ALL"
    /\ row.DATA_TYPE \in {"SCHO", "ENR"}
    /\ Len(row.REF_AREA) = 4
    /\ \E p \in NUTS_TO_REGION : p[1] = row.REF_AREA

\* C16 as stated, for raw tables with a contributing row: the table
\* process_school_data returns, rows and columns, is the one it returns for the
\* contributing rows alone (taking the other rows away changes nothing)
C16_OnlyContributingRows ==
    (SchoolDataReturned /\ SelectSeq(raw_df, Contributes) # <<>>) =>
        LET alone == process_school_data(SelectSeq(raw_df, Contributes))
        IN  school_df = alone.df /\ school_cols = alone.cols

\* merge_data has returned a table: main() is past it, and it did not raise
MergedTableReturned ==
    /\ pc \notin {"process_school_data", "merge_data"}
    /\ "scuole" \in school_cols

DownloadOrder == dataset_ids \o <<"requests", "csv_direct">>

IsPrefix(s, t) == Len(s) <= Len(t) /\ \A i \in DOMAIN s : s[i] = t[i]

\* C22: the attempts made so far are always the first ones of the fixed order
\* (dataset ids in list order, direct request, direct CSV), and once a strategy
\* has returned a table no further attempt is made: an attempt is only made
\* while every earlier one has failed
C22_FixedOrderFirstSuccess ==
    /\ [](IsPrefix(download.tried, DownloadOrder))
    /\ [][download.df # None => download'.tried = download.tried]_vars

\* a finished run in which the four dataset ids failed, the direct request
\* returned a table with rows, and the direct CSV was not tried
C22_Witness ==
    /\ download.pc = "done"
    /\ download.tried = dataset_ids \o <<"requests">>
    /\ download.df # None
    /\ download.df[1].rows > 0
    /\ download.saved # {}

\* C25 as stated: at the end of the run nothing is saved when every strategy
\* failed, something is saved when a strategy returned a table, and a table
\* without rows does not stop the strategies: the table the run ends with has
\* rows unless the last strategy returned it
C25_EmptyTableNotSuccess ==
    download.pc = "done" =>
        /\ download.df = None => download.saved = {}
        /\ download.df # None => download.saved # {}
        /\ (download.df # None /\ download.tried # DownloadOrder) =>
              download.df[1].rows > 0

\* the pairs in nested order: encodings outer, separators inner
NestedOrder ==
    [k \in 1..(Len(encodings) * Len(separators)) |->
        <<encodings[((k - 1) \div Len(separators)) + 1],
          separators[((k - 1) % Len(separators)) + 1]>>]

\* C26 as stated: the pairs are read in nested order; a returned table has more
\* than one column and was read under the last pair tried; and None is returned
\* whenever no pair gave more than one column
C26_FirstMultiColumnOrNone ==
    /\ istat.pc # "not_run" => IsPrefix(istat.tried, NestedOrder)
    /\ istat.pc = "returned" =>
          IF istat.result = None THEN istat.printed = <<"Could not parse file">>
          ELSE /\ istat.result[1].columns > 1
               /\ <<istat.result[1].encoding, istat.result[1].sep>> =
                      istat.tried[Len(istat.tried)]

\* the columns of the merged table, as a row of the projector's table has them
InputColumns(row) ==
    [region |-> row.region, year |-> row.year, studenti |-> row.studenti,
     scuole |-> row.scuole, children_6_10 |-> row.children_6_10,
     indicator |-> row.indicator, proj |-> row.proj]

\* C23: for every region in the projector's table, its rows are the merged rows
\* of that region, as many and in year order, with region, year, scuole,
\* studenti, children_6_10 and proj as they were; and the merged table is still
\* what merge_data returned
C23_RowsKeptInputUntouched ==
    ProjectorReturned =>
        /\ \A r \in RegionsOf(final_df) :
              LET rows == OnlyRegion(final_df, r)
              IN  [i \in DOMAIN rows |-> InputColumns(rows[i])] = OnlyRegion(merged_df, r)
        /\ merged_df = merge_data(school_df, pop_df)

\* a region in the projector's table with at least four rows, some with scuole
\* and some without, some with enrollment and some without
C23_Witness ==
    /\ ProjectorReturned
    /\ \E r \in RegionsOf(final_df) :
          LET rows == OnlyRegion(final_df, r)
          IN  /\ Len(rows) >= 4
              /\ \E i, j \in DOMAIN rows : notna(rows[i].scuole) /\ isna(rows[j].scuole)
              /\ \E i, j \in DOMAIN rows : notna(rows[i].studenti) /\ isna(rows[j].studenti)

\* C24: every row merge_data tags 'BSL' has scuole missing, and every row tagged
\* 'BSL' in the projector's table has scuole missing and carries scuole_hat,
\* scuole_lcl and scuole_ucl computed from its enrollment proxy and the region's
\* ratio summary
C24_ProjectedRowsHaveNoCount ==
    /\ \A i \in DOMAIN merged_df :
          merged_df[i].proj = "BSL" => isna(merged_df[i].scuole)
    /\ \A i \in DOMAIN final_df :
          LET row == final_df[i]
              s == SummaryLine(RatioLine(row.region))
          IN  row.proj = "BSL" =>
                /\ isna(row.scuole)
                /\ row.scuole_hat = Div(ProxyOf(row), s.ratio_med)
                /\ row.scuole_lcl = Div(ProxyOf(row), s.ratio_max)
                /\ row.scuole_ucl = Div(ProxyOf(row), s.ratio_min)

\* a projector's table with a 'BSL' row that has a finite projected count, a row
\* after 2022 that has scuole and is tagged '', and a row tagged '' without
\* scuole
C24_Witness ==
    /\ \E i \in DOMAIN final_df :
          /\ final_df[i].proj = "BSL" /\ IsFinite(final_df[i].scuole_hat)
          /\ Lt(Num(0), final_df[i].scuole_hat)
    /\ \E i \in DOMAIN final_df :
          /\ final_df[i].proj = "" /\ notna(final_df[i].scuole)
          /\ final_df[i].year >= FirstProjectedYear
    /\ \E i \in DOMAIN final_df :
          final_df[i].proj = "" /\ isna(final_df[i].scuole)

\* C27 as stated: when the statistics table has a row for every region the
\* pipeline can emit, every shape is joined to a statistics row (its name under
\* COD_REG_TO_REGION is a value of NUTS_TO_REGION under a 4-character code)
C27_EveryShapeJoins ==
    (maps.pc = "done" /\ maps.stats = EmittableRegions) =>
        \A i \in DOMAIN maps.gdf :
            /\ maps.gdf[i].region \in EmittableRegions
            /\ maps.gdf[i].has_data

====
